---- MODULE Spec2Model ----
(***************************************************************************)
(* Model of src/bot.py: the receipt parser (parse_ticket_info), the        *)
(* in-memory expense list (frais_data), the per-conversation pending       *)
(* state (context.user_data) and the handlers that read and write them.    *)
(*                                                                         *)
(* Texts are sequences of one-character strings.  A Python float is        *)
(* modelled by the decimal it was read from, [num |-> n, frac |-> k]       *)
(* meaning n / 10^k, normalised so that equal numbers are equal records.   *)
(* Python's None is the empty tuple.  A dict is a function whose DOMAIN    *)
(* is the set of keys present.  The 'timestamp' field of an expense is     *)
(* never read by any handler and is left out.                              *)
(*                                                                         *)
(* A handler is an operator from the state it runs in and its inputs to    *)
(* the state it leaves and the way it ended: [frais_data, user_data,       *)
(* outcome].  Its input `fault` names the awaited Telegram call that       *)
(* raises during the run ("none" when every call returns).  The            *)
(* Application handles one update at a time (run_polling without           *)
(* concurrent updates), so a handler run is one step.  /export reads the   *)
(* list and changes nothing; the other handlers that only read frais_data  *)
(* (/recap, /stats, /liste, /start, /help) have no action here.            *)
(* SpecParse is the parser alone, applied to receipts built from pieces.   *)
(***************************************************************************)
EXTENDS Integers, Sequences, FiniteSets, TLC

\* ------------------------------------------------------------------ bounds
\* Largest length of frais_data explored: a handler run that would make the
\* list longer is not taken.
MaxStore == 2

\* Largest number of pieces a receipt text is put together from.
MaxFragments == 3

\* ------------------------------------------------------------ Python values
None == <<>>

Digits == {"0", "1", "2", "3", "4", "5", "6", "7", "8", "9"}

DigitVal(c) ==
  CASE c = "0" -> 0 [] c = "1" -> 1 [] c = "2" -> 2 [] c = "3" -> 3
    [] c = "4" -> 4 [] c = "5" -> 5 [] c = "6" -> 6 [] c = "7" -> 7
    [] c = "8" -> 8 [] c = "9" -> 9

\* \s of the re module, over the characters the texts below are made of
Spaces == {" ", "\n", "\t"}

UpperLetters == <<"A", "B", "C", "D", "E", "F", "G", "H", "I", "J", "K", "L", "M",
                  "N", "O", "P", "Q", "R", "S", "T", "U", "V", "W", "X", "Y", "Z">>

LowerLetters == <<"a", "b", "c", "d", "e", "f", "g", "h", "i", "j", "k", "l", "m",
                  "n", "o", "p", "q", "r", "s", "t", "u", "v", "w", "x", "y", "z">>

\* str.lower(), character by character
LowerChar(c) ==
  IF \E k \in 1..26 : UpperLetters[k] = c
    THEN LowerLetters[CHOOSE k \in 1..26 : UpperLetters[k] = c]
    ELSE c

Lower(s) == [k \in 1..Len(s) |-> LowerChar(s[k])]

\* str.replace(a, b) for one-character a and b
Replace(s, a, b) == [k \in 1..Len(s) |-> IF s[k] = a THEN b ELSE s[k]]

\* str.strip(): what float() does to its argument before reading it
RECURSIVE LStrip(_)
LStrip(s) == IF s # <<>> /\ Head(s) \in Spaces THEN LStrip(Tail(s)) ELSE s

RECURSIVE RStrip(_)
RStrip(s) ==
  IF s # <<>> /\ s[Len(s)] \in Spaces THEN RStrip(SubSeq(s, 1, Len(s) - 1)) ELSE s

Strip(s) == RStrip(LStrip(s))

RECURSIVE DigitsToInt(_)
DigitsToInt(s) ==
  IF s = <<>> THEN 0
  ELSE 10 * DigitsToInt(SubSeq(s, 1, Len(s) - 1)) + DigitVal(s[Len(s)])

\* the decimal n / 10^k with trailing zeros of the fraction removed
RECURSIVE Normalise(_, _)
Normalise(n, k) ==
  IF k > 0 /\ n % 10 = 0 THEN Normalise(n \div 10, k - 1)
  ELSE [num |-> n, frac |-> k]

ValueError == [error |-> "ValueError"]

\* a plausible slip: a text that is no number read as 0.0 instead of raising
PyFloatLenient(s) ==
  LET t    == Strip(s)
      neg  == t # <<>> /\ Head(t) = "-"
      u    == IF t # <<>> /\ Head(t) \in {"-", "+"} THEN Tail(t) ELSE t
      dots == {k \in 1..Len(u) : u[k] = "."}
      p    == IF dots = {} THEN Len(u) + 1 ELSE CHOOSE k \in dots : TRUE
      ip   == SubSeq(u, 1, p - 1)
      fp   == SubSeq(u, p + 1, Len(u))
      ok   == /\ Cardinality(dots) <= 1
              /\ \A k \in 1..Len(u) : u[k] \in Digits \cup {"."}
              /\ Len(ip) + Len(fp) > 0
      n    == DigitsToInt(ip \o fp)
  IN  IF ok THEN Normalise(IF neg THEN 0 - n ELSE n, Len(fp)) ELSE Normalise(0, 0)

\* float(s) for s over digits, '.', sign, blanks and letters that spell no
\* float literal: [blanks] [sign] digits [. digits] | . digits [blanks]
PyFloat(s) ==
  LET t    == Strip(s)
      neg  == t # <<>> /\ Head(t) = "-"
      u    == IF t # <<>> /\ Head(t) \in {"-", "+"} THEN Tail(t) ELSE t
      dots == {k \in 1..Len(u) : u[k] = "."}
      p    == IF dots = {} THEN Len(u) + 1 ELSE CHOOSE k \in dots : TRUE
      ip   == SubSeq(u, 1, p - 1)
      fp   == SubSeq(u, p + 1, Len(u))
      ok   == /\ Cardinality(dots) <= 1
              /\ \A k \in 1..Len(u) : u[k] \in Digits \cup {"."}
              /\ Len(ip) + Len(fp) > 0
      n    == DigitsToInt(ip \o fp)
  IN  IF ok THEN Normalise(IF neg THEN 0 - n ELSE n, Len(fp)) ELSE ValueError

\* Python truth value of info['montant']: None and 0.0 are false
Truthy(montant) == montant # None /\ montant.num # 0

\* ------------------------------------------------------------- re.search
NoMatch == <<>>

\* first index >= i of s that does not hold a character of set (Len(s)+1 if none)
RECURSIVE SkipWhile(_, _, _)
SkipWhile(s, i, set) ==
  IF i <= Len(s) /\ s[i] \in set THEN SkipWhile(s, i + 1, set) ELSE i

\* the literal lit stands at index i of s
LitAt(s, i, lit) == i + Len(lit) - 1 <= Len(s) /\ SubSeq(s, i, i + Len(lit) - 1) = lit

\* \d+[.,]\d{2} at index i: the index after the match, 0 when it does not match
NumEnd(s, i) ==
  LET j == SkipWhile(s, i, Digits)
  IN  IF /\ j > i
         /\ j + 2 <= Len(s)
         /\ s[j] \in {".", ","}
         /\ s[j + 1] \in Digits
         /\ s[j + 2] \in Digits
        THEN j + 3 ELSE 0

\* (\d+[.,]\d{2})\s*€ at index i: group 1
PatEuroAfter(s, i) ==
  LET e == NumEnd(s, i)
      k == SkipWhile(s, e, Spaces)
  IN  IF e # 0 /\ LitAt(s, k, <<"€">>) THEN SubSeq(s, i, e - 1) ELSE NoMatch

\* €\s*(\d+[.,]\d{2}) at index i: group 1
PatEuroBefore(s, i) ==
  LET k == SkipWhile(s, i + 1, Spaces)
      e == NumEnd(s, k)
  IN  IF s[i] = "€" /\ e # 0 THEN SubSeq(s, k, e - 1) ELSE NoMatch

\* total[:\s]+(\d+[.,]\d{2}) at index i: group 1
PatTotal(s, i) ==
  LET k == SkipWhile(s, i + 5, Spaces \cup {":"})
      e == NumEnd(s, k)
  IN  IF LitAt(s, i, <<"t", "o", "t", "a", "l">>) /\ k > i + 5 /\ e # 0
        THEN SubSeq(s, k, e - 1) ELSE NoMatch

\* (\d+[.,]\d{2})\s*eur at index i: group 1
PatEur(s, i) ==
  LET e == NumEnd(s, i)
      k == SkipWhile(s, e, Spaces)
  IN  IF e # 0 /\ LitAt(s, k, <<"e", "u", "r">>) THEN SubSeq(s, i, e - 1) ELSE NoMatch

\* montant_patterns, in the order of the list
MontantPatternCount == 4

MontantPatternAt(p, s, i) ==
  CASE p = 1 -> PatEuroAfter(s, i)
    [] p = 2 -> PatEuroBefore(s, i)
    [] p = 3 -> PatTotal(s, i)
    [] p = 4 -> PatEur(s, i)

\* a plausible slip: the last match kept (re.findall(...)[-1]) instead of the
\* leftmost
SearchMontantLast(p, s) ==
  LET hits == {i \in 1..Len(s) : MontantPatternAt(p, s, i) # NoMatch}
  IN  IF hits = {} THEN NoMatch
      ELSE MontantPatternAt(p, s, CHOOSE i \in hits : \A j \in hits : i >= j)

\* re.search(montant_patterns[p], s).group(1): the leftmost match, or NoMatch
SearchMontant(p, s) ==
  LET hits == {i \in 1..Len(s) : MontantPatternAt(p, s, i) # NoMatch}
  IN  IF hits = {} THEN NoMatch
      ELSE MontantPatternAt(p, s, CHOOSE i \in hits : \A j \in hits : i <= j)

\* a plausible slip: the match that starts first in the text decides,
\* whatever its pattern (one alternation a|b|c|d instead of the loop)
ParseMontantEarliest(text) ==
  LET s    == Lower(text)
      hits == {h \in (1..Len(s)) \X (1..MontantPatternCount) :
                 MontantPatternAt(h[2], s, h[1]) # NoMatch}
  IN  IF hits = {} THEN None
      ELSE LET h == CHOOSE x \in hits :
                      \A y \in hits : x[1] < y[1] \/ (x[1] = y[1] /\ x[2] <= y[2])
           IN  PyFloat(Replace(MontantPatternAt(h[2], s, h[1]), ",", "."))

\* the loop over montant_patterns: the first pattern that matches decides
ParseMontant(text) ==
  LET s       == Lower(text)
      matched == {p \in 1..MontantPatternCount : SearchMontant(p, s) # NoMatch}
  IN  IF matched = {} THEN None
      ELSE LET p == CHOOSE q \in matched : \A r \in matched : q <= r
           IN  PyFloat(Replace(SearchMontant(p, s), ",", "."))

DateSeps == {"/", "-"}

\* (\d{2})[/-](\d{2})[/-](\d{n}) at index i, n the number of year digits:
\* <<jour, mois, annee>> or NoMatch
DateAt(s, i, n) ==
  IF /\ i + 5 + n <= Len(s)
     /\ \A k \in {i, i + 1, i + 3, i + 4} \cup (i + 6 .. i + 5 + n) : s[k] \in Digits
     /\ s[i + 2] \in DateSeps
     /\ s[i + 5] \in DateSeps
    THEN <<SubSeq(s, i, i + 1), SubSeq(s, i + 3, i + 4), SubSeq(s, i + 6, i + 5 + n)>>
    ELSE NoMatch

SearchDate(s, n) ==
  LET hits == {i \in 1..Len(s) : DateAt(s, i, n) # NoMatch}
  IN  IF hits = {} THEN NoMatch
      ELSE DateAt(s, CHOOSE i \in hits : \A j \in hits : i <= j, n)

\* the loop over date_patterns, then the fallback to the date of the day
ParseDate(text, today) ==
  LET m4 == SearchDate(text, 4)
      m2 == SearchDate(text, 2)
  IN  IF m4 # NoMatch THEN m4[1] \o <<"/">> \o m4[2] \o <<"/">> \o m4[3]
      ELSE IF m2 # NoMatch
        THEN m2[1] \o <<"/">> \o m2[2] \o <<"/">> \o <<"2", "0">> \o m2[3]
      ELSE today

parse_ticket_info(text, today) ==
  [montant |-> ParseMontant(text), date |-> ParseDate(text, today), texte_complet |-> text]

\* ----------------------------------------------------------------- PyInt
\* int(s) for s over digits, sign, blanks and letters: [blanks] [sign] digits
\* [blanks]; the integer n is returned as [int |-> n]
PyInt(s) ==
  LET t   == Strip(s)
      neg == t # <<>> /\ Head(t) = "-"
      u   == IF t # <<>> /\ Head(t) \in {"-", "+"} THEN Tail(t) ELSE t
  IN  IF u # <<>> /\ \A k \in 1..Len(u) : u[k] \in Digits
        THEN [int |-> IF neg THEN 0 - DigitsToInt(u) ELSE DigitsToInt(u)]
        ELSE ValueError

\* ------------------------------------------------------------------- dicts
DictGet(d, k) == IF k \in DOMAIN d THEN d[k] ELSE None

DictSet(d, k, v) == [x \in (DOMAIN d) \cup {k} |-> IF x = k THEN v ELSE d[x]]

DictPop(d, k) == [x \in (DOMAIN d) \ {k} |-> d[x]]

\* --------------------------------------------------------------- constants
CATEGORIES ==
  << "Repas professionnels", "Carburant/Deplacements", "Materiel medical",
     "Fournitures", "Formations", "Telephone/Internet", "Autres" >>

\* ------------------------------------------------------------------ inputs
\* the conversations (one user_data dict each)
Convs == {"A", "B"}

\* recognised texts: an amount and a date, an amount of zero, no amount
TextAmount == <<"T", "O", "T", "A", "L", " ", "1", "5", ",", "0", "0", "€", " ",
                "0", "2", "/", "0", "1", "/", "2", "5">>

TextZero == <<"0", ",", "0", "0", " ", "€">>

TextNoAmount == <<"m", "e", "r", "c", "i">>

OcrTexts == {TextAmount, TextZero, TextNoAmount}

\* receipts read by the OCR, put together from at most MaxFragments pieces:
\* amounts followed by a euro sign, a total, an amount in EUR, and a euro
\* sign, a digit and a blank that can stand next to any of them
Fragments ==
  { <<"1", "2", ".", "5", "0", "€">>,
    <<"3", ",", "0", "0", "€">>,
    <<"t", "o", "t", "a", "l", ":", " ", "9", ",", "9", "9">>,
    <<"€">>,
    <<"4", ",", "1", "0", " ", "E", "U", "R">>,
    <<"1">>,
    <<" ">> }

FragmentSeqs == UNION {[1..n -> Fragments] : n \in 1..MaxFragments}

RECURSIVE Concat(_)
Concat(fs) == IF fs = <<>> THEN <<>> ELSE Head(fs) \o Concat(Tail(fs))

ReceiptTexts == {Concat(fs) : fs \in FragmentSeqs}

\* what the Vision call gives extract_text_from_image: it raises, or it
\* returns text_annotations (empty, or with the full text first)
OcrResponses ==
  {[raises |-> TRUE, texts |-> <<>>], [raises |-> FALSE, texts |-> <<>>]}
    \cup {[raises |-> FALSE, texts |-> <<t>>] : t \in OcrTexts}

\* datetime.now().strftime("%d/%m/%Y")
Todays == {<<"0", "3", "/", "1", "1", "/", "2", "0", "2", "6">>}

\* the buttons pressed: callback_data "cat_3" and "cat_6"
CatIndices == {3, 6}

\* free texts typed by the user: one that float() reads once ',' is '.', one
\* that it refuses
ManualTexts == {<<"-", "7", ",", "5">>, <<"a", "b">>}

DigitChar(n) == CHOOSE c \in Digits : DigitVal(c) = n

\* context.args of /supprimer: none, a non-integer, the ids that can exist
SupprimerArgs == {<<>>, <<<<"x">>>>} \cup {<<<<DigitChar(n)>>>> : n \in 1..MaxStore}

\* context.args of /export: none (the month of the day), a year
ExportArgs == {<<>>, <<<<"2", "0", "2", "5">>>>, <<<<"2", "0", "2", "6">>>>}

\* the awaited calls of each handler that can raise
PhotoFaults == {"none", "ack", "download", "reply"}

CategoryFaults == {"none", "answer", "edit"}

ReplyFaults == {"none", "reply"}

ExportFaults == {"none", "reply", "document"}

\* ------------------------------------------------------------------- state
VARIABLES
  frais_data,  \* the list frais_data
  user_data,   \* context.user_data of each conversation
  issued       \* history: the ids given to expenses so far

vars == <<frais_data, user_data, issued>>

Init ==
  /\ frais_data = <<>>
  /\ user_data = [c \in Convs |-> <<>>]
  /\ issued = {}

\* what a handler run leaves
Ended(data, ud, outcome) == [frais_data |-> data, user_data |-> ud, outcome |-> outcome]

\* a plausible slip: the pending state kept in one dict shared by all
\* conversations (a module-level dict, or context.bot_data)
UserDataSetShared(ud, c, key, value) == [x \in DOMAIN ud |-> DictSet(ud[x], key, value)]

\* context.user_data[key] = value, in the handler of an update of conversation c
UserDataSet(ud, c, key, value) == [ud EXCEPT ![c] = DictSet(@, key, value)]

\* context.user_data.pop(key, None)
UserDataPop(ud, c, key) == [ud EXCEPT ![c] = DictPop(@, key)]

\* parse_ticket_info tabulated over the texts and the dates of the day above
ParsedTexts ==
  [t \in OcrTexts \cup ReceiptTexts |-> [d \in Todays |-> parse_ticket_info(t, d)]]

extract_text_from_image(response) ==
  IF response.raises THEN None
  ELSE IF response.texts # <<>> THEN response.texts[1]
  ELSE None

\* a plausible slip: an unreadable photo resets the conversation
\* (context.user_data.clear() before the return of line 205)
handle_photo_ClearsOnFailure(data, ud, c, fault, response, today) ==
  LET text == extract_text_from_image(response)
      info == ParsedTexts[text][today]
  IN  IF fault = "ack" THEN Ended(data, ud, "raised")
      ELSE IF fault = "download" THEN Ended(data, ud, "error_notice")
      ELSE IF text = <<>> THEN Ended(data, [ud EXCEPT ![c] = <<>>], "unreadable_notice")
      ELSE Ended(data, UserDataSet(ud, c, "pending_frais", info),
                 IF fault = "reply" THEN "error_notice" ELSE "choose_category")

\* fault "ack": the first reply_text raises, outside the try; "download":
\* get_file or download_as_bytearray raises; "reply": the reply with the
\* buttons raises.  The last two are caught and answered by the error notice.
handle_photo(data, ud, c, fault, response, today) ==
  LET text == extract_text_from_image(response)
      info == ParsedTexts[text][today]
  IN  IF fault = "ack" THEN Ended(data, ud, "raised")
      ELSE IF fault = "download" THEN Ended(data, ud, "error_notice")
      ELSE IF text = <<>> THEN Ended(data, ud, "unreadable_notice")
      ELSE Ended(data, UserDataSet(ud, c, "pending_frais", info),
                 IF fault = "reply" THEN "error_notice" ELSE "choose_category")

\* the dict built at lines 265-271 and at lines 297-303
NewFrais(data, date, montant, categorie) ==
  [id |-> Len(data) + 1, date |-> date, montant |-> montant, categorie |-> categorie]

\* fault "answer": query.answer() raises; "edit": query.edit_message_text raises
handle_category_selection(data, ud, c, cat_index, fault) ==
  LET categorie == CATEGORIES[cat_index + 1]
      pending   == DictGet(ud[c], "pending_frais")
      frais     == NewFrais(data, pending.date, pending.montant, categorie)
  IN  IF fault = "answer" THEN Ended(data, ud, "raised")
      ELSE IF pending = None
        THEN Ended(data, ud, IF fault = "edit" THEN "raised" ELSE "expired_notice")
      ELSE IF ~Truthy(pending.montant)
        THEN Ended(data, UserDataSet(ud, c, "pending_category", categorie),
                   IF fault = "edit" THEN "raised" ELSE "ask_amount")
      ELSE IF fault = "edit" THEN Ended(Append(data, frais), ud, "raised")
      ELSE Ended(Append(data, frais), UserDataPop(ud, c, "pending_frais"), "recorded")

\* a plausible slip: the guard of line 289 tests the candidate instead of the
\* chosen category
handle_montant_manuel_GuardsOnFrais(data, ud, c, text, fault) ==
  LET montant   == PyFloat(Replace(text, ",", "."))
      pending   == DictGet(ud[c], "pending_frais")
      categorie == DictGet(ud[c], "pending_category")
      frais     == NewFrais(data, pending.date, montant, categorie)
  IN  IF "pending_frais" \notin DOMAIN ud[c] THEN Ended(data, ud, "ignored")
      ELSE IF montant = ValueError
        THEN Ended(data, ud, IF fault = "reply" THEN "raised" ELSE "invalid_notice")
      \* None['date'] is a TypeError, which except ValueError lets through
      ELSE IF pending = None THEN Ended(data, ud, "raised")
      ELSE IF fault = "reply" THEN Ended(Append(data, frais), ud, "raised")
      ELSE Ended(Append(data, frais),
                 UserDataPop(UserDataPop(ud, c, "pending_frais"), c, "pending_category"),
                 "recorded")

\* fault "reply": update.message.reply_text raises
handle_montant_manuel(data, ud, c, text, fault) ==
  LET montant   == PyFloat(Replace(text, ",", "."))
      pending   == DictGet(ud[c], "pending_frais")
      categorie == DictGet(ud[c], "pending_category")
      frais     == NewFrais(data, pending.date, montant, categorie)
  IN  IF "pending_category" \notin DOMAIN ud[c] THEN Ended(data, ud, "ignored")
      ELSE IF montant = ValueError
        THEN Ended(data, ud, IF fault = "reply" THEN "raised" ELSE "invalid_notice")
      \* None['date'] is a TypeError, which except ValueError lets through
      ELSE IF pending = None THEN Ended(data, ud, "raised")
      ELSE IF fault = "reply" THEN Ended(Append(data, frais), ud, "raised")
      ELSE Ended(Append(data, frais),
                 UserDataPop(UserDataPop(ud, c, "pending_frais"), c, "pending_category"),
                 "recorded")

\* a plausible slip: the last expense with that id found instead of the first
FindByIdLast(data, frais_id) ==
  LET hits == {k \in 1..Len(data) : data[k].id = frais_id}
  IN  IF hits = {} THEN 0 ELSE CHOOSE k \in hits : \A j \in hits : k >= j

\* next((f for f in frais_data if f['id'] == frais_id), None): index of the
\* first expense with that id, 0 when there is none
FindById(data, frais_id) ==
  LET hits == {k \in 1..Len(data) : data[k].id = frais_id}
  IN  IF hits = {} THEN 0 ELSE CHOOSE k \in hits : \A j \in hits : k <= j

\* list.remove(x): the list without its first element equal to x
ListRemove(data, x) ==
  LET k == CHOOSE j \in 1..Len(data) :
             data[j] = x /\ \A h \in 1..(j - 1) : data[h] # x
  IN  SubSeq(data, 1, k - 1) \o SubSeq(data, k + 1, Len(data))

\* fault "reply": update.message.reply_text raises
supprimer_command(data, ud, args, fault) ==
  LET frais_id == PyInt(args[1])
      found    == FindById(data, frais_id.int)
      said(m)  == IF fault = "reply" THEN "raised" ELSE m
  IN  IF Len(args) < 1 THEN Ended(data, ud, said("usage_notice"))
      ELSE IF frais_id = ValueError THEN Ended(data, ud, said("invalid_notice"))
      ELSE IF found # 0
        THEN Ended(ListRemove(data, data[found]), ud, said("deleted_notice"))
      ELSE Ended(data, ud, said("not_found_notice"))

\* str.endswith(suffix)
EndsWith(s, suffix) ==
  Len(suffix) <= Len(s) /\ SubSeq(s, Len(s) - Len(suffix) + 1, Len(s)) = suffix

\* datetime.now().strftime("%m/%Y"), read off the date of the day dd/mm/yyyy
MoisActuel(today) == SubSeq(today, 4, 10)

\* the columns of pd.DataFrame(data_export): the keys of the dicts, none when
\* the list is empty
DataFrameColumns(data_export) ==
  IF data_export = <<>> THEN {} ELSE DOMAIN data_export[1]

\* fault "reply": update.message.reply_text raises; "document":
\* update.message.reply_document raises. Nothing is caught in this handler.
export_command(data, ud, args, today, fault) ==
  LET filtre      == IF Len(args) > 0 THEN args[1] ELSE MoisActuel(today)
      data_export == SelectSeq(data, LAMBDA f : EndsWith(f.date, filtre))
      columns     == DataFrameColumns(data_export)
  IN  IF fault = "reply" THEN Ended(data, ud, "raised")
      ELSE IF data = <<>> THEN Ended(data, ud, "nothing_notice")
      ELSE IF ~({"date", "categorie", "montant"} \subseteq columns)
        THEN Ended(data, ud, "raised")  \* df[[...]] raises KeyError
      ELSE IF fault = "document" THEN Ended(data, ud, "raised")
      ELSE Ended(data, ud, "document")

\* ----------------------------------------------------------------- actions
\* the state becomes what the handler run r leaves
Apply(r) ==
  /\ Len(r.frais_data) <= MaxStore
  /\ frais_data' = r.frais_data
  /\ user_data' = r.user_data
  /\ issued' = IF Len(r.frais_data) > Len(frais_data)
                 THEN issued \cup {r.frais_data[Len(r.frais_data)].id}
                 ELSE issued

Photo ==
  \E c \in Convs, fault \in PhotoFaults, response \in OcrResponses, today \in Todays :
    Apply(handle_photo(frais_data, user_data, c, fault, response, today))

CategorySelection ==
  \E c \in Convs, cat_index \in CatIndices, fault \in CategoryFaults :
    Apply(handle_category_selection(frais_data, user_data, c, cat_index, fault))

MontantManuel ==
  \E c \in Convs, text \in ManualTexts, fault \in ReplyFaults :
    Apply(handle_montant_manuel(frais_data, user_data, c, text, fault))

Supprimer ==
  \E args \in SupprimerArgs, fault \in ReplyFaults :
    Apply(supprimer_command(frais_data, user_data, args, fault))

Export ==
  \E args \in ExportArgs, today \in Todays, fault \in ExportFaults :
    Apply(export_command(frais_data, user_data, args, today, fault))

Next == Photo \/ CategorySelection \/ MontantManuel \/ Supprimer \/ Export

Spec == Init /\ [][Next]_vars

\* ------------------------------------------------------- the parser alone
\* parse_ticket_info applied to each receipt: the first photo of conversation
\* A, every Telegram call answering, leaves the parsed candidate stored
FirstPhoto ==
  /\ DOMAIN user_data["A"] = {}
  /\ \E t \in ReceiptTexts, today \in Todays :
       Apply(handle_photo(frais_data, user_data, "A", "none",
                          [raises |-> FALSE, texts |-> <<t>>], today))

SpecParse == Init /\ [][FirstPhoto]_vars

\* ------------------------------------------------------------------ claims
\* the candidate and the chosen category stored for conversation c
PendingFrais(ud, c) == DictGet(ud[c], "pending_frais")

PendingCategory(ud, c) == DictGet(ud[c], "pending_category")

\* the expense a handler run r has appended to the list data, <<>> if none
Appended(data, r) ==
  IF Len(r.frais_data) = Len(data) + 1 /\ SubSeq(r.frais_data, 1, Len(data)) = data
    THEN r.frais_data[Len(r.frais_data)] ELSE <<>>

\* C1: in every reachable state no two expenses of the store have the same id.
C1_UniqueIds ==
  \A j, k \in 1..Len(frais_data) : j # k => frais_data[j].id # frais_data[k].id

\* C2: the id given to a newly committed expense is strictly greater than
\* every id given before it, so no id is given twice.
C2_IdsIncrease ==
  [][Len(frais_data') > Len(frais_data)
       => \A x \in issued : frais_data'[Len(frais_data')].id > x]_vars

\* C3: in every reachable state, a photo whose OCR succeeds leaves the
\* conversation with the new candidate and nothing else (no chosen category),
\* and a text message handled right after it commits no expense.
C3_PhotoReplacesPending ==
  \A c \in Convs, response \in OcrResponses, today \in Todays :
    LET text == extract_text_from_image(response)
        r    == handle_photo(frais_data, user_data, c, "none", response, today)
    IN  text # <<>> =>
          /\ DOMAIN r.user_data[c] = {"pending_frais"}
          /\ PendingFrais(r.user_data, c).texte_complet = text
          /\ \A typed \in ManualTexts :
               handle_montant_manuel(r.frais_data, r.user_data, c, typed, "none").frais_data
                 = r.frais_data

\* C4: in every reachable state, right after a category selection has
\* committed an expense and cleared the candidate, the first record carrying
\* the id given to that expense has the date, amount and category committed.
C4_RoundTrip ==
  \A c \in Convs, cat_index \in CatIndices :
    LET r   == handle_category_selection(frais_data, user_data, c, cat_index, "none")
        new == Appended(frais_data, r)
        k   == FindById(r.frais_data, new.id)
    IN  new # <<>> =>
          /\ k # 0
          /\ r.frais_data[k].date = PendingFrais(user_data, c).date
          /\ r.frais_data[k].montant = PendingFrais(user_data, c).montant
          /\ r.frais_data[k].categorie = CATEGORIES[cat_index + 1]

\* C5: in every reachable state, when /supprimer id has removed an expense,
\* a second /supprimer id right after it reports not-found and leaves the
\* length of the store unchanged.
C5_RemoveTwice ==
  \A args \in SupprimerArgs :
    LET r1 == supprimer_command(frais_data, user_data, args, "none")
        r2 == supprimer_command(r1.frais_data, r1.user_data, args, "none")
    IN  r1.outcome = "deleted_notice" =>
          /\ r2.outcome = "not_found_notice"
          /\ Len(r2.frais_data) = Len(r1.frais_data)

\* what C6 expects of a category selection in conversation c: one expense at
\* the end of the store, numbered by the length before, with the candidate's
\* date and amount and the category of the button
CommitsCandidate(c, cat_index, fault) ==
  handle_category_selection(frais_data, user_data, c, cat_index, fault).frais_data
    = Append(frais_data,
             [id        |-> Len(frais_data) + 1,
              date      |-> PendingFrais(user_data, c).date,
              montant   |-> PendingFrais(user_data, c).montant,
              categorie |-> CATEGORIES[cat_index + 1]])

\* C6: in every reachable state with a candidate whose amount was detected,
\* 0.00 included, a category selection (its callback query answered) appends
\* exactly one expense at the end of the store, with id = length before + 1,
\* the candidate's date and amount and the selected category.
C6_CommitOnDetectedAmount ==
  \A c \in Convs, cat_index \in CatIndices, fault \in {"none", "edit"} :
    (PendingFrais(user_data, c) # None /\ PendingFrais(user_data, c).montant # None)
      => CommitsCandidate(c, cat_index, fault)

\* C7: in every reachable state, when a handler run commits an expense (by a
\* button or by a typed amount), neither a candidate nor a chosen category
\* stays stored for the conversation.
C7_PendingClearedAfterCommit ==
  \A c \in Convs :
    /\ \A cat_index \in CatIndices :
         LET r == handle_category_selection(frais_data, user_data, c, cat_index, "none")
         IN  Appended(frais_data, r) # <<>> => DOMAIN r.user_data[c] = {}
    /\ \A typed \in ManualTexts :
         LET r == handle_montant_manuel(frais_data, user_data, c, typed, "none")
         IN  Appended(frais_data, r) # <<>> => DOMAIN r.user_data[c] = {}

\* C8: in every reachable state with a candidate that has no detected amount,
\* a category selection commits nothing and leaves the candidate with the
\* chosen category; a numeric text handled next appends exactly one expense
\* with that category, the typed amount and the candidate's date, and leaves
\* the conversation with no pending state.
C8_ManualAmountFlow ==
  \A c \in Convs, cat_index \in CatIndices, f1 \in {"none", "edit"} :
    LET pending == PendingFrais(user_data, c)
        r1      == handle_category_selection(frais_data, user_data, c, cat_index, f1)
    IN  (pending # None /\ pending.montant = None) =>
          /\ r1.frais_data = frais_data
          /\ DOMAIN r1.user_data[c] = {"pending_frais", "pending_category"}
          /\ PendingFrais(r1.user_data, c) = pending
          /\ PendingCategory(r1.user_data, c) = CATEGORIES[cat_index + 1]
          /\ \A typed \in ManualTexts, f2 \in ReplyFaults :
               LET montant == PyFloat(Replace(typed, ",", "."))
                   r2 == handle_montant_manuel(r1.frais_data, r1.user_data, c, typed, f2)
               IN  montant # ValueError =>
                     /\ r2.frais_data
                          = Append(r1.frais_data,
                                   [id        |-> Len(r1.frais_data) + 1,
                                    date      |-> pending.date,
                                    montant   |-> montant,
                                    categorie |-> CATEGORIES[cat_index + 1]])
                     /\ DOMAIN r2.user_data[c] = {}

\* C9: every expense of the store has a strictly positive amount.
C9_PositiveAmounts ==
  \A k \in 1..Len(frais_data) : frais_data[k].montant.num > 0

\* C10: in every reachable state, whatever is handled for a conversation (a
\* photo, a category selection, a text; with any call raising) leaves the
\* candidate and the chosen category of every other conversation as they were.
C10_Isolation ==
  \A c \in Convs : \A b \in Convs \ {c} :
    /\ \A fault \in PhotoFaults, response \in OcrResponses, today \in Todays :
         handle_photo(frais_data, user_data, c, fault, response, today).user_data[b]
           = user_data[b]
    /\ \A cat_index \in CatIndices, fault \in CategoryFaults :
         handle_category_selection(frais_data, user_data, c, cat_index, fault).user_data[b]
           = user_data[b]
    /\ \A typed \in ManualTexts, fault \in ReplyFaults :
         handle_montant_manuel(frais_data, user_data, c, typed, fault).user_data[b]
           = user_data[b]

\* C10 witness: both conversations hold pending state at once and not the
\* same: A waits for a typed amount, B for a category.
C10_Witness ==
  /\ DOMAIN user_data["A"] = {"pending_frais", "pending_category"}
  /\ DOMAIN user_data["B"] = {"pending_frais"}
  /\ PendingFrais(user_data, "A").montant = None
  /\ PendingFrais(user_data, "B").montant = [num |-> 15, frac |-> 0]

\* C11: in every reachable state, a photo, a category selection or a text
\* handled for any conversation, with every Telegram call answering, never
\* ends in an exception that leaves the handler: it commits, changes the
\* pending state, is ignored, or replies with a failure message.
C11_NoUnhandledException ==
  \A c \in Convs :
    /\ \A response \in OcrResponses, today \in Todays :
         handle_photo(frais_data, user_data, c, "none", response, today).outcome # "raised"
    /\ \A cat_index \in CatIndices :
         handle_category_selection(frais_data, user_data, c, cat_index, "none").outcome
           # "raised"
    /\ \A typed \in ManualTexts :
         handle_montant_manuel(frais_data, user_data, c, typed, "none").outcome # "raised"

\* C12: in every reachable state, an /export that matches no expense (the
\* store is empty, or no expense of the store has a date of the requested
\* year or of the current month) answers with a nothing-to-export message:
\* it raises no exception and sends no file.
C12_ExportNothingReported ==
  \A args \in ExportArgs, today \in Todays :
    LET wanted == IF Len(args) > 0 THEN args[1] ELSE MoisActuel(today)
        r      == export_command(frais_data, user_data, args, today, "none")
    IN  (\A k \in 1..Len(frais_data) : ~EndsWith(frais_data[k].date, wanted))
          => r.outcome = "nothing_notice"

\* a text made of letters only that spells no float literal
Word(s) ==
  /\ s # <<>>
  /\ \A k \in 1..Len(s) :
       \E j \in 1..Len(LowerLetters) : s[k] \in {LowerLetters[j], UpperLetters[j]}
  /\ Lower(s) \notin {<<"n", "a", "n">>, <<"i", "n", "f">>,
                       <<"i", "n", "f", "i", "n", "i", "t", "y">>}

C14_ExpiredSessionIsIdle ==
  \A c \in Convs, cat_index \in CatIndices :
    LET r == handle_category_selection(frais_data, user_data, c, cat_index, "none")
    IN  PendingFrais(user_data, c) = None =>
          /\ r.frais_data = frais_data
          /\ r.outcome = "expired_notice"
          /\ DOMAIN r.user_data[c] = {}

\* C15: in every reachable state, a photo for which the Vision call raises or
\* returns no text leaves the store and the pending state of every
\* conversation exactly as they were, whichever Telegram call raises, and is
\* answered with the unreadable-photo notice once the photo is downloaded.
C15_OcrFailureMutatesNothing ==
  \A c \in Convs, fault \in PhotoFaults, response \in OcrResponses, today \in Todays :
    LET r == handle_photo(frais_data, user_data, c, fault, response, today)
    IN  (response.raises \/ response.texts = <<>>) =>
          /\ r.frais_data = frais_data
          /\ r.user_data = user_data
          /\ fault \in {"none", "reply"} => r.outcome = "unreadable_notice"

\* C15 witness: the store is full and a conversation holds a candidate with a
\* detected amount, so there is a store and a pending state to keep.
C15_Witness ==
  /\ Len(frais_data) = MaxStore
  /\ DOMAIN user_data["B"] = {"pending_frais"}
  /\ PendingFrais(user_data, "B").montant = [num |-> 0, frac |-> 0]

\* the literal lit occurs in s
Contains(s, lit) == \E i \in 1..Len(s) : LitAt(s, i, lit)

\* the literal lit stands at index i of s with no digit right before it
BareAt(s, i, lit) == LitAt(s, i, lit) /\ (i = 1 \/ s[i - 1] \notin Digits)

\* the first euro sign of s ends an occurrence of the amount that no digit
\* precedes
FirstEuroAmount(s, amount) ==
  \E i \in 1..Len(s) :
    /\ BareAt(s, i, amount \o <<"€">>)
    /\ \A j \in 1..(i - 1) : s[j] # "€"

\* C16 as stated: the candidate parsed from any text containing "12.50€" has
\* the amount 12.50, whatever else the text contains.
C16_AnyTextWithAmount ==
  \A c \in Convs :
    LET info == PendingFrais(user_data, c)
    IN  (info # None /\ Contains(info.texte_complet, <<"1", "2", ".", "5", "0", "€">>))
          => info.montant = [num |-> 125, frac |-> 1]

\* C16 amended: the candidate parsed from a text containing "12.50€", with no
\* digit right before that occurrence and no euro sign anywhere before it, has
\* the amount 12.50, whatever else the text contains.
C16_FirstEuroAmount ==
  \A c \in Convs :
    LET info == PendingFrais(user_data, c)
    IN  (info # None /\ FirstEuroAmount(info.texte_complet, <<"1", "2", ".", "5", "0">>))
          => info.montant = [num |-> 125, frac |-> 1]

\* C16 witness: the parsed text has a total and an amount in EUR before its
\* "12.50€", and 12.50 is the amount found.
C16_Witness ==
  /\ PendingFrais(user_data, "A") # None
  /\ PendingFrais(user_data, "A").texte_complet
       = <<"t", "o", "t", "a", "l", ":", " ", "9", ",", "9", "9",
           "4", ",", "1", "0", " ", "E", "U", "R",
           "1", "2", ".", "5", "0", "€">>
  /\ PendingFrais(user_data, "A").montant = [num |-> 125, frac |-> 1]

TotalLit == <<"t", "o", "t", "a", "l", ":", " ", "9", ",", "9", "9">>

\* what C17 says of a candidate besides its example: with no euro sign in the
\* text, a first 'total' followed by 9,99 gives 9.99 even after an amount in
\* eur; with no euro sign, no 'total' and no 'eur' the amount is absent
PrecedenceRules(info) ==
  LET s == Lower(info.texte_complet)
  IN  /\ ( /\ ~Contains(s, <<"€">>)
           /\ \E i \in 1..Len(s) :
                /\ LitAt(s, i, TotalLit)
                /\ \A j \in 1..(i - 1) : ~LitAt(s, j, <<"t", "o", "t", "a", "l">>) )
           => info.montant = [num |-> 999, frac |-> 2]
      /\ ( /\ ~Contains(s, <<"€">>)
           /\ ~Contains(s, <<"t", "o", "t", "a", "l">>)
           /\ ~Contains(s, <<"e", "u", "r">>) )
           => info.montant = None

\* C17 as stated: the amount of a parsed candidate follows the order of the
\* patterns and not the place in the text; when the text contains both
\* "total: 9,99" and a bare "3,00€" (no digit right before it) the amount is
\* 3.00 wherever the two occur; when no pattern can match it is absent.
C17_PrecedenceAsStated ==
  \A c \in Convs :
    LET info == PendingFrais(user_data, c)
        text == info.texte_complet
    IN  info # None =>
          /\ PrecedenceRules(info)
          /\ ( /\ Contains(text, TotalLit)
               /\ \E i \in 1..Len(text) : BareAt(text, i, <<"3", ",", "0", "0", "€">>) )
               => info.montant = [num |-> 3, frac |-> 0]

\* C17 amended: the same, the example being a text that contains both
\* "total: 9,99" and a bare "3,00€" with no euro sign anywhere before it: the
\* amount is 3.00 wherever the two occur.
C17_PrecedenceFirstEuro ==
  \A c \in Convs :
    LET info == PendingFrais(user_data, c)
        text == info.texte_complet
    IN  info # None =>
          /\ PrecedenceRules(info)
          /\ ( /\ Contains(text, TotalLit)
               /\ FirstEuroAmount(text, <<"3", ",", "0", "0">>) )
               => info.montant = [num |-> 3, frac |-> 0]

\* C17 witness: the total stands first in the parsed text, the bare "3,00€"
\* after it, and 3.00 is the amount found.
C17_Witness ==
  /\ PendingFrais(user_data, "A") # None
  /\ PendingFrais(user_data, "A").texte_complet
       = TotalLit \o <<" ", "3", ",", "0", "0", "€">>
  /\ PendingFrais(user_data, "A").montant = [num |-> 3, frac |-> 0]

\* C18: in every reachable state, a /supprimer whose argument is the id of an
\* expense of the store removes exactly one record, the first in insertion
\* order with that id; the others stay as they were (same id, date, amount
\* and category) in the same order, and the pending state of every
\* conversation is unchanged, whether or not the reply can be sent.
C18_DeletionRemovesFirstOnly ==
  \A n \in 1..MaxStore, fault \in ReplyFaults :
    LET r     == supprimer_command(frais_data, user_data, <<<<DigitChar(n)>>>>, fault)
        hits  == {k \in 1..Len(frais_data) : frais_data[k].id = n}
        first == CHOOSE k \in hits : \A j \in hits : k <= j
    IN  hits # {} =>
          /\ r.frais_data
               = [k \in 1..(Len(frais_data) - 1) |->
                    IF k < first THEN frais_data[k] ELSE frais_data[k + 1]]
          /\ r.user_data = user_data
          /\ fault = "none" => r.outcome = "deleted_notice"

\* C18 witness: two different expenses of the store carry the same id, so
\* which of them a deletion removes can be told, while a conversation holds
\* pending state.
C18_Witness ==
  /\ Len(frais_data) = 2
  /\ frais_data[1].id = frais_data[2].id
  /\ frais_data[1] # frais_data[2]
  /\ DOMAIN user_data["A"] # {}

\* C19: in every reachable state, once a category selection or a text has
\* committed an expense for a conversation, the next category selection or
\* text of that conversation (no photo in between, whichever reply raises)
\* commits none: the store grows by at most one record per photo.
C19_OneCommitPerPhoto ==
  \A c \in Convs :
    LET NoSecond(r1) ==
          Appended(frais_data, r1) # <<>> =>
            /\ \A cat_index \in CatIndices, fault \in CategoryFaults :
                 handle_category_selection(r1.frais_data, r1.user_data, c,
                                           cat_index, fault).frais_data = r1.frais_data
            /\ \A typed \in ManualTexts, fault \in ReplyFaults :
                 handle_montant_manuel(r1.frais_data, r1.user_data, c,
                                       typed, fault).frais_data = r1.frais_data
    IN  /\ \A cat_index \in CatIndices, fault \in CategoryFaults :
             NoSecond(handle_category_selection(frais_data, user_data, c, cat_index, fault))
        /\ \A typed \in ManualTexts, fault \in ReplyFaults :
             NoSecond(handle_montant_manuel(frais_data, user_data, c, typed, fault))

\* C20: in every reachable state, a text typed in a conversation that stores
\* no chosen category is ignored, whatever the text and whether or not a
\* candidate is stored: the store and the pending state are unchanged and
\* nothing is answered.
C20_TextIgnoredWithoutCategory ==
  \A c \in Convs, typed \in ManualTexts, fault \in ReplyFaults :
    LET r == handle_montant_manuel(frais_data, user_data, c, typed, fault)
    IN  "pending_category" \notin DOMAIN user_data[c] =>
          /\ r.frais_data = frais_data
          /\ r.user_data = user_data
          /\ r.outcome = "ignored"

\* C20 witness: a conversation holds a candidate with a detected amount and
\* no chosen category yet, the other holds nothing, and the store holds an
\* expense.
C20_Witness ==
  /\ Len(frais_data) = 1
  /\ DOMAIN user_data["A"] = {"pending_frais"}
  /\ PendingFrais(user_data, "A").montant = [num |-> 15, frac |-> 0]
  /\ DOMAIN user_data["B"] = {}
====
